---- MODULE Spec2Model ----
(***************************************************************************)
(* The news pipeline of nlp_rss: save_articles, the embedding step and the *)
(* incremental clustering engine (backend/clustering.py), over the two     *)
(* tables articles and events.                                             *)
(*                                                                         *)
(* The database holds committed rows only.  Every step of a session is the *)
(* code between two commits (or between a query and the commit that uses   *)
(* its result), so every state of the model is a state another session, or *)
(* a restart after a crash, can observe.                                   *)
(*                                                                         *)
(* Numbers.  A vector is [num |-> <<x, y>>, den |-> d], the rational       *)
(* vector num/den.  A similarity c (a cosine) is carried as the rational   *)
(* sign(c)*c^2 = [n |-> .., d |-> ..]; the map c |-> sign(c)*c^2 is        *)
(* strictly increasing, so every comparison the code makes between two     *)
(* similarities, or between a similarity and the threshold, has the same   *)
(* outcome on these values.  A threshold p/q is [p |-> p, q |-> q].        *)
(***************************************************************************)
EXTENDS Integers, Sequences, FiniteSets, TLC

\* ---------------------------------------------------------------- bounds
MaxArticles == 3
MaxBatch == 2
MaxCrashes == 1

\* SQL NULL / Python None of an integer or timestamp column.
None == 0

\* ------------------------------------------------------------ arithmetic
Sgn(x) == IF x > 0 THEN 1 ELSE IF x < 0 THEN -1 ELSE 0

Abs(x) == IF x < 0 THEN -x ELSE x

RECURSIVE GCD(_, _)
GCD(a, b) == IF b = 0 THEN a ELSE GCD(b, a % b)

RECURSIVE SumOver(_, _)
\* the sum of f[x] over the finite set S
SumOver(f, S) ==
    IF S = {} THEN 0
    ELSE LET x == CHOOSE y \in S : TRUE IN f[x] + SumOver(f, S \ {x})

\* the NULL of a vector column (embedding_vector, centroid_embedding)
NoVec == [num |-> <<>>, den |-> 1]

Vec(x, y) == [num |-> <<x, y>>, den |-> 1]

Dot(a, b) == SumOver([k \in DOMAIN a |-> a[k] * b[k]], DOMAIN a)

\* a rational a.n/a.d > b.n/b.d, both denominators positive
Gt(a, b) == a.n * b.d > b.n * a.d

RatEq(a, b) == a.n * b.d = b.n * a.d

\* util.cos_sim(a, b) multiplies a (1 x len(a)) by the transpose of b
\* (1 x len(b)): vectors of different lengths raise a RuntimeError
CosSimRaises(a, b) == Len(a.num) # Len(b.num)

\* a vector with every component 0
IsZeroVector(v) == v # NoVec /\ \A k \in DOMAIN v.num : v.num[k] = 0

\* sentence_transformers.util.cos_sim(a, b).item(): both vectors are
\* normalised (a zero vector stays zero) and multiplied, so the result is
\* the cosine, and 0 when either vector is zero.  Scaling a vector by a
\* positive number (its denominator) does not change the cosine.
CosSim(a, b) ==
    LET dot == Dot(a.num, b.num)
        na  == Dot(a.num, a.num)
        nb  == Dot(b.num, b.num)
    IN  IF na = 0 \/ nb = 0 THEN [n |-> 0, d |-> 1]
        ELSE [n |-> Sgn(dot) * dot * dot, d |-> na * nb]

\* the threshold p/q on the scale of CosSim
ThresholdScore(t) == [n |-> Sgn(t.p) * t.p * t.p, d |-> t.q * t.q]

\* best_match_score = -1
InitialBestScore == [n |-> -1, d |-> 1]

RECURSIVE GCDOver(_, _)
\* the greatest common divisor of |f[1]|, ..., |f[k]| (0 when k = 0)
GCDOver(f, k) == IF k = 0 THEN 0 ELSE GCD(GCDOver(f, k - 1), Abs(f[k]))

\* numpy.mean over rows of different lengths raises
NpMeanRaises(embeddings) ==
    \E x, y \in DOMAIN embeddings :
        Len(embeddings[x].num) # Len(embeddings[y].num)

\* numpy.mean(embeddings, axis=0): the componentwise sum over the count, as
\* a reduced fraction (every embedding here has denominator 1).
NpMean(embeddings) ==
    LET S   == DOMAIN embeddings
        dim == DOMAIN (embeddings[CHOOSE x \in S : TRUE]).num
        sum == [k \in dim |-> SumOver([x \in S |-> embeddings[x].num[k]], S)]
        cnt == Cardinality(S)
        g   == GCD(cnt, GCDOver(sum, Len(sum)))
    IN  [num |-> [k \in dim |-> sum[k] \div g], den |-> cnt \div g]

\* ---------------------------------------------------------------- inputs
\* generate_embedding_vector(title): a fixed function of the title.
EmbeddingTable == <<Vec(1, 0), Vec(0, 1), Vec(4, 3), Vec(-1, 0)>>

GenerateEmbeddingVector(title) == EmbeddingTable[title]

\* The article dicts the scraper can yield: url, title, publish_date
\* (None when neither newspaper3k nor the feed gives a date).
Feed ==
    { [url |-> 1, title |-> 1, publish_date |-> None],
      [url |-> 2, title |-> 2, publish_date |-> 2],
      [url |-> 3, title |-> 3, publish_date |-> 1],
      [url |-> 4, title |-> 4, publish_date |-> 1],
      [url |-> 5, title |-> 1, publish_date |-> 2] }

\* What the embedding_vector column can hold besides the vectors above.
\* The model that encodes a title is named by the environment
\* (EMBEDDING_MODEL) at the time of the embedding step, so rows embedded
\* under different settings can differ in length, and nothing in the code
\* keeps an encoder from returning the zero vector.
StoredEmbeddings ==
    { Vec(1, 0), Vec(4, 3), Vec(0, 0), [num |-> <<1, 0, 0>>, den |-> 1] }

\* the thresholds a caller passes: the default 0.75, and 1 and -2
Thresholds == { [p |-> 3, q |-> 4], [p |-> 1, q |-> 1], [p |-> -2, q |-> 1] }

Sessions == {"A", "B"}

\* all orders in which a query without ORDER BY can return the rows S
Orders(S) ==
    { f \in [1..Cardinality(S) -> S] : \A i, j \in DOMAIN f : i # j => f[i] # f[j] }

VARIABLES
    articles,   \* the articles table: a sequence of rows, article_id = index
    events,     \* the events table: a sequence of rows, event_id = index
    run,        \* per session: the local variables of cluster_articles
    crashes,    \* how many runs were cut short so far
    pipeline    \* the local variables of one pipeline execution

vars == <<articles, events, run, crashes, pipeline>>

\* ------------------------------------------------------------ the tables
ArticleIds == DOMAIN articles

EventIds == DOMAIN events

\* Article.event_id == event_id
Members(event_id) == { a \in ArticleIds : articles[a].event_id = event_id }

\* the filter on embedding_vector dropped: every article without an event
ArticlesToClusterAnyEmbedding ==
    { a \in ArticleIds : articles[a].event_id = None }

\* the filter on event_id dropped: every embedded article
ArticlesToClusterAnyEvent ==
    { a \in ArticleIds : articles[a].embedding_vector # NoVec }

\* Article.event_id == None, Article.embedding_vector != None
ArticlesToCluster ==
    { a \in ArticleIds :
        articles[a].event_id = None /\ articles[a].embedding_vector # NoVec }

\* ------------------------------------------------------- clustering.py
\* what find_best_matching_event returns for None
NoMatch == [event_id |-> None, score |-> InitialBestScore]

\* result >= threshold: an inclusive threshold
ExceedsThresholdInclusive(result, threshold) ==
    ~Gt(ThresholdScore(threshold), result)

\* result > threshold
ExceedsThreshold(result, threshold) == Gt(result, ThresholdScore(threshold))

\* the comparison with best_match_score dropped: the last event above the
\* threshold wins
BeatsBestAlways(result, best_match_score) == TRUE

\* result >= best_match_score: of two events at the same score the later
\* one wins
BeatsBestOrTies(result, best_match_score) == ~Gt(best_match_score, result)

\* result > best_match_score
BeatsBest(result, best_match_score) == Gt(result, best_match_score)

RECURSIVE BestMatchLoop(_, _, _, _, _)
\* the for loop of find_best_matching_event from row k on, with
\* best = (best_match, best_match_score) so far
BestMatchLoop(article_embedding, threshold, events_in_db, k, best) ==
    IF k > Len(events_in_db) THEN best
    ELSE LET event  == events_in_db[k]
             result == CosSim(article_embedding, event.centroid_embedding)
         IN  IF /\ event.centroid_embedding # NoVec
                /\ ExceedsThreshold(result, threshold)
                /\ BeatsBest(result, best.score)
             THEN BestMatchLoop(article_embedding, threshold, events_in_db, k + 1,
                                [event_id |-> event.event_id, score |-> result])
             ELSE BestMatchLoop(article_embedding, threshold, events_in_db, k + 1, best)

\* line 35 gives the same result for two of the events
EqualSimilarity(article_embedding, events_in_db) ==
    \E j, k \in DOMAIN events_in_db :
        /\ j # k
        /\ events_in_db[j].centroid_embedding # NoVec
        /\ events_in_db[k].centroid_embedding # NoVec
        /\ RatEq(CosSim(article_embedding, events_in_db[j].centroid_embedding),
                 CosSim(article_embedding, events_in_db[k].centroid_embedding))

\* find_best_matching_event raises: line 35 raises on the first event whose
\* centroid has another length than the article embedding, and nothing in
\* the function catches it
FindBestMatchingEventRaises(article_embedding, events_in_db) ==
    \E k \in DOMAIN events_in_db :
        /\ events_in_db[k].centroid_embedding # NoVec
        /\ CosSimRaises(article_embedding, events_in_db[k].centroid_embedding)

\* only the first row the store returns is compared
FindBestMatchingEventFirstRow(article_embedding, threshold, events_in_db) ==
    BestMatchLoop(article_embedding, threshold,
                  IF events_in_db = <<>> THEN <<>> ELSE <<events_in_db[1]>>,
                  1, NoMatch)

\* find_best_matching_event: (event_id, score) or NoMatch
FindBestMatchingEvent(article_embedding, threshold, events_in_db) ==
    BestMatchLoop(article_embedding, threshold, events_in_db, 1, NoMatch)

\* the rows db_session.query(Event).all() returns, in the order the store
\* gives them
EventsInDb(order) == [k \in DOMAIN order |-> events[order[k]]]

\* a session that keeps reading the events table as it was when its run
\* started
QueriedEventIdsAtRunStart(s) == 1..run[s].events_at_start

\* the ids of the rows that query reads in session s: every committed row
QueriedEventIds(s) == EventIds

\* update_event_centroid, lines 59-62: the embeddings of the member rows
MemberEmbeddings(members) ==
    [a \in { m \in members : articles[m].embedding_vector # NoVec } |->
        articles[a].embedding_vector]

\* update_event_centroid, lines 56-80: what it computes from the member rows
\* it read; no_embeddings is the early return of lines 64-66
ComputeCentroidUpdate(members) ==
    LET with_embedding == { a \in members : articles[a].embedding_vector # NoVec }
        article_times  ==
            { articles[a].published_at_time : a \in
                { m \in members : articles[m].published_at_time # None } }
    IN  IF with_embedding = {}
        THEN [no_embeddings |-> TRUE, centroid_embedding |-> NoVec, article_count |-> 0,
              has_times |-> FALSE, start_time |-> None, last_update |-> None]
        ELSE [no_embeddings     |-> FALSE,
              centroid_embedding |->
                  NpMean([a \in with_embedding |-> articles[a].embedding_vector]),
              article_count     |-> Cardinality(members),
              has_times         |-> article_times # {},
              start_time        |->
                  IF article_times = {} THEN None
                  ELSE CHOOSE t \in article_times : \A u \in article_times : t <= u,
              last_update       |->
                  IF article_times = {} THEN None
                  ELSE CHOOSE t \in article_times : \A u \in article_times : t >= u]

\* update_event_centroid also clearing the title of the event
ApplyCentroidUpdateRetitled(event, update) ==
    [event EXCEPT
        !.title              = None,
        !.centroid_embedding = update.centroid_embedding,
        !.article_count      = update.article_count,
        !.start_time         = IF update.has_times THEN update.start_time ELSE @,
        !.last_update        = IF update.has_times THEN update.last_update ELSE @]

\* update_event_centroid also rewriting the summary of the event
ApplyCentroidUpdateAndSummary(event, update) ==
    [event EXCEPT
        !.summary            = "recomputed",
        !.centroid_embedding = update.centroid_embedding,
        !.article_count      = update.article_count,
        !.start_time         = IF update.has_times THEN update.start_time ELSE @,
        !.last_update        = IF update.has_times THEN update.last_update ELSE @]

\* update_event_centroid without line 74: article_count is left as it was
ApplyCentroidUpdateKeepCount(event, update) ==
    [event EXCEPT
        !.centroid_embedding = update.centroid_embedding,
        !.start_time         = IF update.has_times THEN update.start_time ELSE @,
        !.last_update        = IF update.has_times THEN update.last_update ELSE @]

\* update_event_centroid, lines 72-80: the event row with the computed
\* fields set; start_time and last_update only when some member has a time
ApplyCentroidUpdate(event, update) ==
    [event EXCEPT
        !.centroid_embedding = update.centroid_embedding,
        !.article_count      = update.article_count,
        !.start_time         = IF update.has_times THEN update.start_time ELSE @,
        !.last_update        = IF update.has_times THEN update.last_update ELSE @]

\* an Event row created without its times
NewEventWithoutTimes(article, event_id) ==
    [event_id           |-> event_id,
     title              |-> article.title,
     summary            |-> "",
     start_time         |-> None,
     last_update        |-> None,
     centroid_embedding |-> article.embedding_vector,
     article_count      |-> 1]

\* create_new_event_from_article, lines 98-105: the Event row added
NewEvent(article, event_id) ==
    [event_id           |-> event_id,
     title              |-> article.title,
     summary            |-> "",
     start_time         |-> article.published_at_time,
     last_update        |-> article.published_at_time,
     centroid_embedding |-> article.embedding_vector,
     article_count      |-> 1]

\* ------------------------------------------- a pipeline execution's state
\* who runs the four steps: run_complete_pipeline (pipeline.py) or the
\* Airflow DAG news_article_pipeline
Runners == {"script", "dag"}

\* default_args['retries']
Retries == 2

IdlePipeline ==
    [pc               |-> "idle",
     runner           |-> "script",
     articles         |-> <<>>,     \* what the scrape step returned
     saved_count      |-> 0,
     embeddings_count |-> 0,
     embed_failed     |-> FALSE,    \* the last try of the embedding step raised
     tries            |-> 0]        \* retries of the current task so far

\* ------------------------------------------------ a session's local state
NoUpdate ==
    [no_embeddings |-> TRUE, centroid_embedding |-> NoVec, article_count |-> 0,
     has_times |-> FALSE, start_time |-> None, last_update |-> None]

NoStats == [total_processed |-> 0, assigned_to_existing |-> 0, new_events_created |-> 0]

\* no earlier run to compare with
NoFirst == [valid |-> FALSE, assignments |-> <<>>, stats |-> NoStats, tie_seen |-> FALSE]

IdleRun ==
    [pc                  |-> "idle",
     threshold           |-> [p |-> 3, q |-> 4],
     articles_to_cluster |-> <<>>,
     i                   |-> 1,
     new_events_created  |-> 0,
     articles_assigned   |-> 0,
     match_result        |-> NoMatch,
     order               |-> <<>>,     \* the order the last event query returned
     new_event           |-> None,
     update              |-> NoUpdate,
     stats               |-> NoStats,
     \* history of the run, read by the properties only
     events_at_start     |-> 0,
     counts_ok_at_start  |-> TRUE,
     branch              |-> <<>>,
     tie_seen            |-> FALSE,    \* some article was equally similar to two events
     first               |-> NoFirst]  \* the outcome of the run this one repeats

\* the article of the current loop iteration
Current(s) == run[s].articles_to_cluster[run[s].i]

\* every event's article_count equals its member count
CountsConsistent ==
    \A e \in EventIds : events[e].article_count = Cardinality(Members(e))

\* ------------------------------------------------- article_storage.py
RECURSIVE SaveLoop(_, _, _)
\* the for loop of save_articles from dict k on: a dict is added unless a
\* row with its url is already in the table.  The session does not
\* autoflush, so the existence query sees the committed rows only, not the
\* rows added earlier in the same batch (pending).
SaveLoop(articles_list, k, pending) ==
    IF k > Len(articles_list) THEN pending
    ELSE LET article_dict == articles_list[k]
             existing == \E a \in ArticleIds : articles[a].url = article_dict.url
         IN  IF ~existing
             THEN SaveLoop(articles_list, k + 1,
                      Append(pending,
                          [url               |-> article_dict.url,
                           title             |-> article_dict.title,
                           published_at_time |-> article_dict.publish_date,
                           embedding_vector  |-> NoVec,
                           event_id          |-> None]))
             ELSE SaveLoop(articles_list, k + 1, pending)

\* the batches a scrape can hand to save_articles
Batches == UNION { [1..n -> Feed] : n \in 1..MaxBatch }

\* save_articles(articles_list): the loop and the commit
SaveArticles ==
    \E articles_list \in Batches :
        LET added == SaveLoop(articles_list, 1, <<>>)
        IN  /\ Len(articles) + Len(added) <= MaxArticles
            /\ articles' = articles \o added
            /\ UNCHANGED <<events, run, crashes, pipeline>>

\* ---------------------------------------- pipeline.py, the embedding step
\* step3_generate_embeddings / generate_embeddings_task: every article
\* without an embedding gets the embedding of its title, in one commit
GenerateEmbeddings ==
    /\ \E a \in ArticleIds : articles[a].embedding_vector = NoVec
    /\ articles' =
         [a \in ArticleIds |->
            IF articles[a].embedding_vector = NoVec
            THEN [articles[a] EXCEPT
                    !.embedding_vector = GenerateEmbeddingVector(articles[a].title)]
            ELSE articles[a]]
    /\ UNCHANGED <<events, run, crashes, pipeline>>

\* save_articles committing each row as it is added: a failure keeps the
\* rows added before it
SaveArticlesResultNoRollback(articles_list, fails_at) ==
    IF fails_at # 0
    THEN LET kept == SaveLoop(SubSeq(articles_list, 1, fails_at - 1), 1, <<>>)
         IN  [raised |-> TRUE, added |-> kept, saved_count |-> 0]
    ELSE LET pending == SaveLoop(articles_list, 1, <<>>)
         IN  [raised |-> FALSE, added |-> pending, saved_count |-> Len(pending)]

\* save_articles(articles_list, db_session) as its caller sees it.
\* fails_at = 0: no statement raises, the pending rows are committed and
\* saved_count returned.  fails_at = k: the statement for dict k raises (or
\* the commit, for k past the end); the handler of lines 47-50 rolls the
\* session back, so no pending row is persisted, and re-raises.
SaveArticlesResult(articles_list, fails_at) ==
    IF fails_at # 0
    THEN [raised |-> TRUE, added |-> <<>>, saved_count |-> 0]
    ELSE LET pending == SaveLoop(articles_list, 1, <<>>)
         IN  [raised |-> FALSE, added |-> pending, saved_count |-> Len(pending)]

\* the rows of the table after the embedding step's commit
EmbedAll ==
    [a \in ArticleIds |->
        IF articles[a].embedding_vector = NoVec
        THEN [articles[a] EXCEPT
                !.embedding_vector = GenerateEmbeddingVector(articles[a].title)]
        ELSE articles[a]]

\* an embedding step that commits each embedding as it is made: a failure
\* keeps the first one
GenerateEmbeddingsResultPartial(fails) ==
    LET without == { a \in ArticleIds : articles[a].embedding_vector = NoVec }
        first   == CHOOSE a \in without : \A b \in without : a <= b
    IN  IF without = {}
        THEN [raised |-> fails, articles |-> articles, count |-> 0]
        ELSE IF fails
        THEN [raised |-> TRUE,
              articles |-> [articles EXCEPT ![first] = EmbedAll[first]],
              count |-> 0]
        ELSE [raised |-> FALSE, articles |-> EmbedAll, count |-> Cardinality(without)]

\* The body of step3_generate_embeddings (pipeline.py lines 82-107) and of
\* generate_embeddings_task (DAG lines 86-105), which are the same: the
\* articles without an embedding are selected, each gets the embedding of
\* its title, one commit.  fails: a statement raises (the encoder, the
\* query or the commit) and the handler rolls back.
GenerateEmbeddingsResult(fails) ==
    LET without == { a \in ArticleIds : articles[a].embedding_vector = NoVec }
    IN  IF fails
        THEN [raised |-> TRUE, articles |-> articles, count |-> 0]
        ELSE IF without = {}
        THEN [raised |-> FALSE, articles |-> articles, count |-> 0]
        ELSE [raised |-> FALSE, articles |-> EmbedAll, count |-> Cardinality(without)]

\* ------------------------------------------- clustering.cluster_articles
\* lines 129-141: a new session reads the articles to cluster, in whatever
\* order the store returns them
StartRun(s) ==
    /\ run[s].pc \in {"idle", "done", "crashed", "failed"}
    /\ \E threshold \in Thresholds, list \in Orders(ArticlesToCluster) :
         run' = [run EXCEPT ![s] =
                   [IdleRun EXCEPT
                      !.pc                  = "loop",
                      !.threshold           = threshold,
                      !.articles_to_cluster = list,
                      !.events_at_start     = Len(events),
                      !.counts_ok_at_start  = CountsConsistent]]
    /\ UNCHANGED <<articles, events, crashes, pipeline>>

\* lines 143-150: the next article of the list; find_best_matching_event
\* queries the events table.  An exception raised in it is caught nowhere
\* in cluster_articles: it ends the run (pc "failed") and reaches the
\* caller.
FindMatch(s) ==
    /\ run[s].pc = "loop"
    /\ run[s].i <= Len(run[s].articles_to_cluster)
    /\ \E order \in Orders(QueriedEventIds(s)) :
         IF FindBestMatchingEventRaises(articles[Current(s)].embedding_vector,
                                        EventsInDb(order))
         THEN run' = [run EXCEPT ![s].pc = "failed"]
         ELSE run' = [run EXCEPT
                        ![s].pc           = "matched",
                        ![s].order        = order,
                        ![s].match_result =
                            FindBestMatchingEvent(articles[Current(s)].embedding_vector,
                                                  run[s].threshold, EventsInDb(order)),
                        ![s].tie_seen     =
                            @ \/ EqualSimilarity(articles[Current(s)].embedding_vector,
                                                 EventsInDb(order))]
    /\ UNCHANGED <<articles, events, crashes, pipeline>>

\* lines 152-156: article.event_id = match; commit
AssignToEvent(s) ==
    /\ run[s].pc = "matched"
    /\ run[s].match_result # NoMatch
    /\ articles' = [articles EXCEPT ![Current(s)].event_id = run[s].match_result.event_id]
    /\ run' = [run EXCEPT ![s].pc = "assigned", ![s].order = <<>>]
    /\ UNCHANGED <<events, crashes, pipeline>>

\* lines 159-161 with update_event_centroid lines 56-69: the members are
\* read and the centroid computed; with no embedding among them the
\* function returns and the loop goes on; with embeddings of different
\* lengths numpy.mean raises and the run ends
QueryMembers(s) ==
    /\ run[s].pc = "assigned"
    /\ LET members == Members(run[s].match_result.event_id)
           update  == ComputeCentroidUpdate(members)
       IN  IF NpMeanRaises(MemberEmbeddings(members))
           THEN run' = [run EXCEPT ![s].pc = "failed"]
           ELSE IF update.no_embeddings
           THEN run' = [run EXCEPT
                          ![s].pc                = "loop",
                          ![s].i                 = @ + 1,
                          ![s].articles_assigned = @ + 1,
                          ![s].branch            = Append(@, "assigned")]
           ELSE run' = [run EXCEPT ![s].pc = "computed", ![s].update = update]
    /\ UNCHANGED <<articles, events, crashes, pipeline>>

\* update_event_centroid lines 72-82 and line 161: the event row is
\* written and committed
CommitCentroid(s) ==
    /\ run[s].pc = "computed"
    /\ LET event_id == run[s].match_result.event_id
       IN  events' = [events EXCEPT
                        ![event_id] = ApplyCentroidUpdate(@, run[s].update)]
    /\ run' = [run EXCEPT
                 ![s].pc                = "loop",
                 ![s].i                 = @ + 1,
                 ![s].articles_assigned = @ + 1,
                 ![s].update            = NoUpdate,
                 ![s].branch            = Append(@, "assigned")]
    /\ UNCHANGED <<articles, crashes, pipeline>>

\* line 165 with create_new_event_from_article lines 98-108: the event row
\* is added and committed
CreateEvent(s) ==
    /\ run[s].pc = "matched"
    /\ run[s].match_result = NoMatch
    /\ events' = Append(events, NewEvent(articles[Current(s)], Len(events) + 1))
    /\ run' = [run EXCEPT
                 ![s].pc = "created", ![s].order = <<>>, ![s].new_event = Len(events) + 1]
    /\ UNCHANGED <<articles, crashes, pipeline>>

\* line 166 without lines 111-112: the loop goes on, the article keeps no
\* event
AssignFoundingSkipped(s) ==
    /\ run[s].pc = "created"
    /\ run' = [run EXCEPT
                 ![s].pc                 = "loop",
                 ![s].i                  = @ + 1,
                 ![s].new_events_created = @ + 1,
                 ![s].new_event          = None,
                 ![s].branch             = Append(@, "new")]
    /\ UNCHANGED <<articles, events, crashes, pipeline>>

\* create_new_event_from_article lines 111-112 and line 166
AssignFounding(s) ==
    /\ run[s].pc = "created"
    /\ articles' = [articles EXCEPT ![Current(s)].event_id = run[s].new_event]
    /\ run' = [run EXCEPT
                 ![s].pc                 = "loop",
                 ![s].i                  = @ + 1,
                 ![s].new_events_created = @ + 1,
                 ![s].new_event          = None,
                 ![s].branch             = Append(@, "new")]
    /\ UNCHANGED <<events, crashes, pipeline>>

\* total_processed taken from the number of assignments to existing events
ClusteringStatsAssignedOnly(s) ==
    [total_processed      |-> run[s].articles_assigned,
     assigned_to_existing |-> run[s].articles_assigned,
     new_events_created   |-> run[s].new_events_created]

\* lines 168-172: the stats dict
ClusteringStats(s) ==
    [total_processed      |-> Len(run[s].articles_to_cluster),
     assigned_to_existing |-> run[s].articles_assigned,
     new_events_created   |-> run[s].new_events_created]

\* lines 168-179: the list is exhausted, the statistics are returned
Finish(s) ==
    /\ run[s].pc = "loop"
    /\ run[s].i > Len(run[s].articles_to_cluster)
    /\ run' = [run EXCEPT ![s] =
                 [IdleRun EXCEPT
                    !.pc    = "done",
                    !.stats = ClusteringStats(s),
                    !.counts_ok_at_start = run[s].counts_ok_at_start,
                    !.tie_seen           = run[s].tie_seen,
                    !.first              = run[s].first]]
    /\ UNCHANGED <<articles, events, crashes, pipeline>>

\* The loop has no handler and no transaction around an article: when the
\* process stops inside a run (it is killed, or a statement raises: a
\* query or a commit the store refuses), the run ends where it is and what
\* it committed stays.  At pc "matched" the statement is the commit of line
\* 156 or 108, at "assigned" the query of line 56 or 72, at "computed" the
\* commit of line 82, at "created" the commit of line 112.
Crash(s) ==
    /\ run[s].pc \in {"loop", "matched", "assigned", "computed", "created"}
    /\ crashes < MaxCrashes
    /\ crashes' = crashes + 1
    /\ run' = [run EXCEPT ![s] = [IdleRun EXCEPT !.pc = "crashed"]]
    /\ UNCHANGED <<articles, events, pipeline>>

\* ------------------------------- run_complete_pipeline and the DAG tasks
\* what a task does when its callable raises: the script has no handler, so
\* the exception ends run_complete_pipeline; Airflow retries the task
\* Retries times and then fails it, and its downstream tasks do not run
AfterRaise ==
    IF pipeline.runner = "dag" /\ pipeline.tries < Retries
    THEN [pipeline EXCEPT !.tries = @ + 1]
    ELSE [pipeline EXCEPT !.pc = "failed"]

\* a pipeline execution starts: run_complete_pipeline is called, or the
\* schedule starts a DAG run
StartPipeline ==
    /\ pipeline.pc \in {"idle", "complete", "failed"}
    /\ \E runner \in Runners :
         pipeline' = [IdlePipeline EXCEPT !.pc = "scrape", !.runner = runner]
    /\ UNCHANGED <<articles, events, run, crashes>>

\* step1_scrape_articles / scrape_articles_task: the scraper returns a list
\* of article dicts, possibly empty (it catches its own errors)
Step1Scrape ==
    /\ pipeline.pc = "scrape"
    /\ \E articles_list \in Batches \cup {<<>>} :
         pipeline' = [pipeline EXCEPT !.pc = "save", !.articles = articles_list]
    /\ UNCHANGED <<articles, events, run, crashes>>

\* step2_save_to_database / save_articles_task: save_articles on the
\* scraped list (the task returns 0 for an empty list, as save_articles
\* does)
Step2Save ==
    /\ pipeline.pc = "save"
    /\ \E fails_at \in 0..(Len(pipeline.articles) + 1) :
         LET result == SaveArticlesResult(pipeline.articles, fails_at)
         IN  /\ Len(articles) + Len(result.added) <= MaxArticles
             /\ articles' = articles \o result.added
             /\ pipeline' =
                  IF result.raised THEN AfterRaise
                  ELSE [pipeline EXCEPT
                          !.pc = "embed", !.saved_count = result.saved_count, !.tries = 0]
    /\ UNCHANGED <<events, run, crashes>>

\* step3_generate_embeddings catches every exception and returns 0 (lines
\* 108-111), so run_complete_pipeline goes on to step 4;
\* generate_embeddings_task re-raises (lines 107-110)
Step3Embed ==
    /\ pipeline.pc = "embed"
    /\ \E fails \in BOOLEAN :
         LET result == GenerateEmbeddingsResult(fails)
         IN  /\ articles' = result.articles
             /\ pipeline' =
                  IF result.raised /\ pipeline.runner = "dag"
                  THEN [AfterRaise EXCEPT !.embed_failed = TRUE]
                  ELSE [pipeline EXCEPT
                          !.pc               = "cluster",
                          !.embeddings_count = result.count,
                          !.embed_failed     = result.raised,
                          !.tries            = 0]
    /\ UNCHANGED <<events, run, crashes>>

\* step4_cluster_into_events / cluster_articles_task: cluster_articles is
\* called in a new session
Step4Cluster ==
    /\ pipeline.pc = "cluster"
    /\ run["A"].pc = "idle"
    /\ StartRun("A")

\* cluster_articles has returned its stats: the execution is complete and
\* the session is gone
Step4Return ==
    /\ pipeline.pc = "cluster"
    /\ run["A"].pc = "done"
    /\ pipeline' = [pipeline EXCEPT !.pc = "complete"]
    /\ run' = [run EXCEPT !["A"] = IdleRun]
    /\ UNCHANGED <<articles, events, crashes>>

\* --------------------------------------------------------- specifications
Init ==
    /\ articles = <<>>
    /\ events = <<>>
    /\ run = [s \in Sessions |-> IdleRun]
    /\ crashes = 0
    /\ pipeline = IdlePipeline

\* one clustering session at a time (the pipeline as scheduled)
Next ==
    \/ SaveArticles
    \/ GenerateEmbeddings
    \/ StartRun("A")
    \/ FindMatch("A")
    \/ AssignToEvent("A")
    \/ QueryMembers("A")
    \/ CommitCentroid("A")
    \/ CreateEvent("A")
    \/ AssignFounding("A")
    \/ Finish("A")
    \/ Crash("A")

Spec == Init /\ [][Next]_vars

\* Two clustering sessions on one database.  Nothing in cluster_articles
\* or in the DAG keeps a second run from starting while one is in progress.
\* The database starts with OverlapArticles saved and embedded articles.
OverlapArticles == 2

InitOverlap ==
    /\ \E dicts \in [1..OverlapArticles -> Feed] :
         /\ \A j, k \in DOMAIN dicts : j # k => dicts[j].url # dicts[k].url
         /\ articles =
              [k \in DOMAIN dicts |->
                 [url               |-> dicts[k].url,
                  title             |-> dicts[k].title,
                  published_at_time |-> dicts[k].publish_date,
                  embedding_vector  |-> GenerateEmbeddingVector(dicts[k].title),
                  event_id          |-> None]]
    /\ events = <<>>
    /\ run = [s \in Sessions |-> IdleRun]
    /\ crashes = 0
    /\ pipeline = IdlePipeline

NextOverlap ==
    \E s \in Sessions :
        \/ StartRun(s)
        \/ FindMatch(s)
        \/ AssignToEvent(s)
        \/ QueryMembers(s)
        \/ CommitCentroid(s)
        \/ CreateEvent(s)
        \/ AssignFounding(s)
        \/ Finish(s)

SpecOverlap == InitOverlap /\ [][NextOverlap]_vars

\* One clustering session over a database whose articles were embedded
\* under any settings: VectorArticles saved articles, each with one of the
\* StoredEmbeddings, none clustered yet.
VectorArticles == 3

InitVectors ==
    /\ \E stored \in [1..VectorArticles -> StoredEmbeddings] :
         articles =
             [k \in 1..VectorArticles |->
                [url               |-> k,
                 title             |-> k,
                 published_at_time |-> k - 1,
                 embedding_vector  |-> stored[k],
                 event_id          |-> None]]
    /\ events = <<>>
    /\ run = [s \in Sessions |-> IdleRun]
    /\ crashes = 0
    /\ pipeline = IdlePipeline

NextVectors ==
    \/ StartRun("A")
    \/ FindMatch("A")
    \/ AssignToEvent("A")
    \/ QueryMembers("A")
    \/ CommitCentroid("A")
    \/ CreateEvent("A")
    \/ AssignFounding("A")
    \/ Finish("A")

SpecVectors == InitVectors /\ [][NextVectors]_vars

\* a step of the loop of cluster_articles, or its return
ClusterStep(s) ==
    \/ FindMatch(s)
    \/ AssignToEvent(s)
    \/ QueryMembers(s)
    \/ CommitCentroid(s)
    \/ CreateEvent(s)
    \/ AssignFounding(s)
    \/ Finish(s)

\* the same, with a process that keeps executing: a run that can take a
\* step eventually takes one
SpecVectorsFair ==
    InitVectors /\ [][NextVectors]_vars /\ WF_vars(ClusterStep("A"))

\* A run and its repetition.  Session A has just listed ReplayArticles
\* embedded, unclustered articles of a store without events; session B is
\* to make the same call (same threshold, same list) on the same store.
ReplayArticles == 3

InitReplay ==
    /\ \E dicts \in [1..ReplayArticles -> Feed] :
         /\ \A j, k \in DOMAIN dicts : j # k => dicts[j].url # dicts[k].url
         /\ articles =
              [k \in DOMAIN dicts |->
                 [url               |-> dicts[k].url,
                  title             |-> dicts[k].title,
                  published_at_time |-> dicts[k].publish_date,
                  embedding_vector  |-> GenerateEmbeddingVector(dicts[k].title),
                  event_id          |-> None]]
    /\ events = <<>>
    /\ \E threshold \in Thresholds, list \in Orders(1..ReplayArticles) :
         run = [s \in Sessions |->
                  [IdleRun EXCEPT
                     !.pc                  = IF s = "A" THEN "loop" ELSE "waiting",
                     !.threshold           = threshold,
                     !.articles_to_cluster = list]]
    /\ crashes = 0
    /\ pipeline = IdlePipeline

\* The run of A has returned: the store is put back as it was before it
\* (no event, no article assigned) and B starts, keeping what A produced.
Rewind ==
    /\ run["A"].pc = "done"
    /\ run["B"].pc = "waiting"
    /\ articles' = [a \in ArticleIds |-> [articles[a] EXCEPT !.event_id = None]]
    /\ events' = <<>>
    /\ run' = [run EXCEPT
                 !["B"].pc    = "loop",
                 !["B"].first =
                     [valid       |-> TRUE,
                      assignments |-> [a \in ArticleIds |-> articles[a].event_id],
                      stats       |-> run["A"].stats,
                      tie_seen    |-> run["A"].tie_seen]]
    /\ UNCHANGED <<crashes, pipeline>>

NextReplay ==
    \/ Rewind
    \/ \E s \in Sessions :
          \/ FindMatch(s)
          \/ AssignToEvent(s)
          \/ QueryMembers(s)
          \/ CommitCentroid(s)
          \/ CreateEvent(s)
          \/ AssignFounding(s)
          \/ Finish(s)

SpecReplay == InitReplay /\ [][NextReplay]_vars

\* Pipeline executions one after another on a database that starts empty,
\* each run by the script or by the DAG.
NextPipeline ==
    \/ StartPipeline
    \/ Step1Scrape
    \/ Step2Save
    \/ Step3Embed
    \/ Step4Cluster
    \/ FindMatch("A")
    \/ AssignToEvent("A")
    \/ QueryMembers("A")
    \/ CommitCentroid("A")
    \/ CreateEvent("A")
    \/ AssignFounding("A")
    \/ Finish("A")
    \/ Step4Return

SpecPipeline == Init /\ [][NextPipeline]_vars

\* ------------------------------------------------------------- properties
\* the embeddings of the members of event e, summed in component k
MemberSum(e, k) ==
    SumOver([a \in Members(e) |-> articles[a].embedding_vector.num[k]], Members(e))

\* the centroid of event e is the componentwise mean of the embeddings of
\* exactly its members
CentroidIsMemberMean(e) ==
    LET c == events[e].centroid_embedding
    IN  /\ Members(e) # {}
        /\ c # NoVec
        /\ \A a \in Members(e) : articles[a].embedding_vector # NoVec
        /\ \A k \in DOMAIN c.num :
             c.num[k] * Cardinality(Members(e)) = MemberSum(e, k) * c.den

\* C1: when a run that started with every event's article_count equal to its
\* member count has completed, every event's article_count equals the number
\* of articles whose event_id is that event's id.
C1_CountsAfterRun ==
    \A s \in Sessions :
        (run[s].pc = "done" /\ run[s].counts_ok_at_start) => CountsConsistent

\* a completed run that assigned an article to an existing event and
\* created one, started from consistent counts, with a two-member event
C1_Witness ==
    /\ run["A"].pc = "done"
    /\ run["A"].counts_ok_at_start
    /\ run["A"].stats.assigned_to_existing >= 1
    /\ run["A"].stats.new_events_created >= 1
    /\ \E e \in EventIds : events[e].article_count = 2 /\ Cardinality(Members(e)) = 2

\* C2: when a run has completed, every event's centroid is the mean of the
\* embeddings of exactly its members.
C2_CentroidAfterRun ==
    \A s \in Sessions :
        run[s].pc = "done" => \A e \in EventIds : CentroidIsMemberMean(e)

\* C3: an article's event_id, once set, is never changed or cleared.
C3_EventIdMonotonic ==
    [][\A a \in ArticleIds :
          articles[a].event_id # None =>
              articles'[a].event_id = articles[a].event_id]_vars

\* C4: in no committed state does an event have a member that its
\* article_count and centroid do not include.
C4_AssignAtomic ==
    \A e \in EventIds :
        Members(e) # {} =>
            /\ Cardinality(Members(e)) <= events[e].article_count
            /\ CentroidIsMemberMean(e)

\* C5: in every committed state every event row has at least one member.
C5_NoMemberlessEvent == \A e \in EventIds : Members(e) # {}

\* --- the matching step, read in the state right after it (pc = "matched")
Thr(s) == ThresholdScore(run[s].threshold)

\* the similarity of the current article of session s to event e
SimTo(s, e) ==
    CosSim(articles[Current(s)].embedding_vector, events[e].centroid_embedding)

\* no event is more similar to the current article than e
IsBest(s, e) == \A f \in EventIds : ~Gt(SimTo(s, f), SimTo(s, e))

\* the threshold of the run is at least -1, the least value of a cosine
ThresholdAtLeastFloor(s) == run[s].threshold.p >= -run[s].threshold.q

MatchIsBestAboveThreshold(s) ==
    LET m == run[s].match_result
    IN  m # NoMatch =>
          /\ m.event_id \in EventIds
          /\ RatEq(m.score, SimTo(s, m.event_id))
          /\ IsBest(s, m.event_id)
          /\ Gt(m.score, Thr(s))

NoEventAboveThreshold(s) == \A e \in EventIds : ~Gt(SimTo(s, e), Thr(s))

TieAtBest(s, e, f) ==
    /\ e # f
    /\ IsBest(s, e)
    /\ IsBest(s, f)
    /\ Gt(SimTo(s, e), Thr(s))

\* the event at the greatest similarity that the store returned first
FirstBestInOrder(s) ==
    LET k == CHOOSE j \in DOMAIN run[s].order :
                /\ IsBest(s, run[s].order[j])
                /\ \A l \in 1..(j - 1) : ~IsBest(s, run[s].order[l])
    IN  run[s].order[k]

BackToBack(s) ==
    /\ run[s].i > 1
    /\ run[s].branch[Len(run[s].branch)] = "new"
    /\ LET prev == run[s].articles_to_cluster[run[s].i - 1]
       IN  /\ Gt(CosSim(articles[prev].embedding_vector,
                        articles[Current(s)].embedding_vector), Thr(s))
           /\ \A e \in EventIds \ {articles[prev].event_id} :
                 ~Gt(SimTo(s, e), Thr(s))

PreviousEvent(s) == articles[run[s].articles_to_cluster[run[s].i - 1]].event_id

NothingToCluster ==
    \A a \in ArticleIds :
        articles[a].embedding_vector = NoVec \/ articles[a].event_id # None

\* C10: a run started when no article has an embedding and no event has an
\* empty list, changes no row, and returns 0, 0, 0.
C10_NoOpRun ==
    [][\A s \in Sessions :
          /\ (run[s].pc \in {"idle", "done", "crashed"} /\ run'[s].pc = "loop"
                /\ NothingToCluster) =>
                /\ run'[s].articles_to_cluster = <<>>
                /\ UNCHANGED <<articles, events>>
          /\ (run[s].pc = "loop" /\ run[s].articles_to_cluster = <<>>
                /\ run'[s] # run[s]) =>
                /\ UNCHANGED <<articles, events>>
                /\ run'[s].pc \in {"done", "crashed"}
                /\ run'[s].pc = "done" => run'[s].stats = NoStats]_vars

\* a run over a clustered database has returned 0, 0, 0
C10_Witness ==
    /\ run["A"].pc = "done"
    /\ run["A"].stats = NoStats
    /\ events # <<>>
    /\ \E a \in ArticleIds : articles[a].event_id # None
    /\ NothingToCluster

\* C11: when an article of a run fails with a vector error, every other
\* article of the run's list is still processed and assigned to an event.
C11_FailureConfined ==
    \A s \in Sessions :
        run[s].pc = "failed" =>
            \A k \in DOMAIN run[s].articles_to_cluster :
                k # run[s].i =>
                    articles[run[s].articles_to_cluster[k]].event_id # None

\* C12: a run in which an article fails still returns statistics to its
\* caller: no run ends with the exception, instead of the statistics,
\* reaching the caller.
C12_StatsDespiteFailure == \A s \in Sessions : run[s].pc # "failed"

\* C13: when a run ends on a failure while an article is being processed,
\* the committed state holds no part of that article's operation: its
\* event_id is null and no event was added for it.
C13_WriteFailureRollsBack ==
    [][\A s \in Sessions :
          (/\ run[s].pc \in {"matched", "assigned", "computed", "created"}
           /\ run'[s].pc = "crashed") =>
              /\ articles'[Current(s)].event_id = None
              /\ run[s].new_event = None]_vars

\* C14: update_event_centroid for an event without a member that has an
\* embedding does not return normally: the run does not go on.
C14_NoMembersRaises ==
    [][\A s \in Sessions :
          (/\ run[s].pc = "assigned"
           /\ run'[s] # run[s]
           /\ DOMAIN MemberEmbeddings(Members(run[s].match_result.event_id)) = {}) =>
              run'[s].pc = "failed"]_vars

\* C15: a zero vector is fatal for the article: the matching step never
\* returns normally from comparing an article whose embedding is the zero
\* vector with the events, and no event has the zero vector as its centroid.
C15_DegenerateVectorFatal ==
    /\ \A s \in Sessions :
          (run[s].pc = "matched" /\ events # <<>>) =>
              ~IsZeroVector(articles[Current(s)].embedding_vector)
    /\ \A e \in EventIds : ~IsZeroVector(events[e].centroid_embedding)

\* C16: when an article matches no event, one Event row is added, with the
\* article's title, its embedding as centroid, article_count 1 and both
\* times equal to the article's published_at_time, every other row is left
\* as it is, and the article's event_id is then set to the new row's id.
C16_NewEventFromArticle ==
    [][\A s \in Sessions :
          /\ (run[s].pc = "matched" /\ run[s].match_result = NoMatch
                /\ run'[s].pc = "created") =>
                LET article == articles[Current(s)]
                    e       == Len(events) + 1
                IN  /\ Len(events') = e
                    /\ \A k \in DOMAIN events : events'[k] = events[k]
                    /\ events'[e].event_id = e
                    /\ events'[e].title = article.title
                    /\ events'[e].centroid_embedding = article.embedding_vector
                    /\ events'[e].article_count = 1
                    /\ events'[e].start_time = article.published_at_time
                    /\ events'[e].last_update = article.published_at_time
                    /\ run'[s].new_event = e
                    /\ UNCHANGED articles
          /\ (run[s].pc = "created" /\ run'[s].pc = "loop") =>
                /\ articles'[Current(s)].event_id = run[s].new_event
                /\ \A a \in ArticleIds \ {Current(s)} : articles'[a] = articles[a]
                /\ UNCHANGED events]_vars

\* the article before the current one founded the newest event, and has a
\* time
C16_Witness ==
    /\ run["A"].pc = "loop"
    /\ run["A"].i > 1
    /\ run["A"].branch[Len(run["A"].branch)] = "new"
    /\ LET article == articles[run["A"].articles_to_cluster[run["A"].i - 1]]
       IN  /\ article.event_id = Len(events)
           /\ article.published_at_time # None
           /\ events[article.event_id].title = article.title
           /\ events[article.event_id].start_time = article.published_at_time
           /\ events[article.event_id].article_count = 1

\* C17: when a run completes, total_processed = assigned_to_existing +
\* new_events_created, total_processed is the number of articles whose
\* event_id the run set (the articles of its list, and no other),
\* new_events_created is the number of Event rows added since the run
\* started; and no step removes an Event row.
C17_StatsAccount ==
    [][/\ \A s \in Sessions :
            (run[s].pc = "loop" /\ run'[s].pc = "done") =>
                LET stats == run'[s].stats
                    list  == run[s].articles_to_cluster
                IN  /\ stats.total_processed =
                          stats.assigned_to_existing + stats.new_events_created
                    /\ stats.total_processed =
                          Cardinality({ k \in DOMAIN list :
                                          articles[list[k]].event_id # None })
                    /\ stats.new_events_created =
                          Len(events) - run[s].events_at_start
       /\ \A s \in Sessions :
            run[s].pc \in {"loop", "matched", "assigned", "computed", "created"} =>
                \A a \in ArticleIds :
                    articles'[a].event_id # articles[a].event_id =>
                        /\ a = Current(s)
                        /\ articles[a].event_id = None
       /\ Len(events') >= Len(events)
       /\ \A e \in DOMAIN events : events'[e].event_id = events[e].event_id]_vars

\* a completed run over two articles: one joined an event that was there
\* before, one founded an event
C17_Witness ==
    /\ run["A"].pc = "done"
    /\ run["A"].stats =
         [total_processed |-> 2, assigned_to_existing |-> 1, new_events_created |-> 1]
    /\ Len(events) = 2
    /\ \A a \in ArticleIds : articles[a].event_id # None

\* C18: a run repeated on the same store with the same list and threshold
\* makes the same assignments and returns the same statistics as the first,
\* whatever the order in which the store returns the events to either run,
\* provided no article of either run was equally similar to two events.
C18_RepeatedRunSameOutcome ==
    \A s \in Sessions :
        (/\ run[s].pc = "done"
         /\ run[s].first.valid
         /\ ~run[s].first.tie_seen
         /\ ~run[s].tie_seen) =>
            /\ \A a \in ArticleIds :
                  articles[a].event_id = run[s].first.assignments[a]
            /\ run[s].stats = run[s].first.stats

\* a repeated run without ties that met two events and joined one
C18_Witness ==
    /\ run["B"].pc = "done"
    /\ run["B"].first.valid
    /\ ~run["B"].first.tie_seen
    /\ ~run["B"].tie_seen
    /\ run["B"].stats.assigned_to_existing = 1
    /\ run["B"].stats.new_events_created = 2
    /\ \A a \in ArticleIds : articles[a].event_id = run["B"].first.assignments[a]

\* the times of the members of event e that have one
MemberTimes(e) ==
    { articles[a].published_at_time :
        a \in { m \in Members(e) : articles[m].published_at_time # None } }

\* C19: when a run has completed, every event's start_time and last_update
\* are the least and the greatest published_at_time of its members that
\* have one, and both are null when no member has one.
C19_TimesAfterRun ==
    \A s \in Sessions :
        run[s].pc = "done" =>
            \A e \in EventIds :
                IF MemberTimes(e) = {}
                THEN events[e].start_time = None /\ events[e].last_update = None
                ELSE /\ events[e].start_time \in MemberTimes(e)
                     /\ events[e].last_update \in MemberTimes(e)
                     /\ \A t \in MemberTimes(e) :
                           events[e].start_time <= t /\ t <= events[e].last_update

\* C20: no step changes the title or the summary of an existing Event.
C20_TitleSummaryFrozen ==
    [][\A e \in DOMAIN events :
          /\ events'[e].title = events[e].title
          /\ events'[e].summary = events[e].summary]_vars

\* an event whose centroid was recomputed for a second member with another
\* title, still with the title of its founder and the empty summary
C20_Witness ==
    \E e \in EventIds :
        /\ events[e].article_count = 2
        /\ events[e].summary = ""
        /\ \E a, b \in Members(e) :
             /\ articles[a].title = events[e].title
             /\ articles[b].title # events[e].title

\* C21: a step of processing an article changes no other article, and of
\* that article only event_id.  When the article matched no event, no
\* existing event is changed and one row is added (by the creating step);
\* when it matched event E, no row is added, no other event is changed, and
\* of E only centroid_embedding, article_count, start_time and last_update.
C21_FrameOfProcessing ==
    [][\A s \in Sessions :
          (/\ run[s].pc \in {"matched", "assigned", "computed", "created"}
           /\ run'[s] # run[s]) =>
              LET a == Current(s)
                  E == run[s].match_result.event_id
              IN  /\ \A b \in ArticleIds \ {a} : articles'[b] = articles[b]
                  /\ articles'[a] =
                       [articles[a] EXCEPT !.event_id = articles'[a].event_id]
                  /\ IF run[s].match_result = NoMatch
                     THEN /\ \A e \in EventIds : events'[e] = events[e]
                          /\ Len(events') =
                               IF run'[s].pc = "created"
                               THEN Len(events) + 1 ELSE Len(events)
                     ELSE /\ Len(events') = Len(events)
                          /\ \A e \in EventIds \ {E} : events'[e] = events[e]
                          /\ events'[E] =
                               [events[E] EXCEPT
                                  !.centroid_embedding = events'[E].centroid_embedding,
                                  !.article_count      = events'[E].article_count,
                                  !.start_time         = events'[E].start_time,
                                  !.last_update        = events'[E].last_update]]_vars

\* an article has just joined an event of two members while another event
\* with its single member is there
C21_Witness ==
    /\ run["A"].pc = "loop"
    /\ run["A"].branch # <<>>
    /\ run["A"].branch[Len(run["A"].branch)] = "assigned"
    /\ \E e, f \in EventIds :
         /\ events[e].article_count = 2 /\ Cardinality(Members(e)) = 2
         /\ events[f].article_count = 1 /\ Cardinality(Members(f)) = 1
         /\ articles[run["A"].articles_to_cluster[run["A"].i - 1]].event_id = e

\* C22: an article without an embedding has no event, and is in no run's
\* list (so it is not counted in total_processed, the length of the list,
\* and is no member of any event).
C22_NullEmbeddingInvisible ==
    /\ \A a \in ArticleIds :
          articles[a].embedding_vector = NoVec => articles[a].event_id = None
    /\ \A s \in Sessions :
          \A k \in DOMAIN run[s].articles_to_cluster :
              articles[run[s].articles_to_cluster[k]].embedding_vector # NoVec

\* a run has clustered every embedded article while an article without an
\* embedding is in the table
C22_Witness ==
    /\ run["A"].pc = "done"
    /\ run["A"].stats.total_processed = 2
    /\ Len(articles) = 3
    /\ Cardinality({ a \in ArticleIds : articles[a].embedding_vector = NoVec }) = 1
    /\ Cardinality({ a \in ArticleIds : articles[a].event_id # None }) = 2

\* C23: when two overlapping runs have both completed, every event's
\* article_count is its member count and its centroid is the mean of its
\* members.
C23_OverlapSerialized ==
    (\A s \in Sessions : run[s].pc = "done") =>
        \A e \in EventIds :
            /\ events[e].article_count = Cardinality(Members(e))
            /\ CentroidIsMemberMean(e)

\* C24: a run that is in its loop ends (it returns, or an exception ends
\* it); and when it returns, every article of its list has the id of an
\* existing event, after one iteration for each article of the list.
C24_RunTerminatesComplete ==
    /\ [](\A s \in Sessions :
            (run[s].pc = "loop" /\ run[s].i > Len(run[s].articles_to_cluster)) =>
                /\ \A k \in DOMAIN run[s].articles_to_cluster :
                      articles[run[s].articles_to_cluster[k]].event_id \in EventIds
                /\ Len(run[s].branch) = Len(run[s].articles_to_cluster)
                /\ \A j, k \in DOMAIN run[s].articles_to_cluster :
                      j # k => run[s].articles_to_cluster[j] #
                                  run[s].articles_to_cluster[k])
    /\ (run["A"].pc = "loop") ~> (run["A"].pc \in {"done", "failed"})

\* a run over three articles has returned, and each has an existing event
C24_Witness ==
    /\ run["A"].pc = "done"
    /\ run["A"].stats.total_processed = 3
    /\ \A a \in ArticleIds : articles[a].event_id \in EventIds

\* C25: no two Article rows have the same url.
C25_UniqueUrl ==
    \A a, b \in ArticleIds : a # b => articles[a].url # articles[b].url

\* C26: the save step either raises, and then the articles table is as it
\* was and the exception reaches the caller (the execution fails, or the
\* task is retried), or returns, and then the rows added are as many as the
\* count it returned and no earlier row is changed.
C26_SaveAllOrNothing ==
    [][(pipeline.pc = "save" /\ pipeline' # pipeline) =>
          IF pipeline'.pc = "embed"
          THEN /\ Len(articles') = Len(articles) + pipeline'.saved_count
               /\ \A a \in ArticleIds : articles'[a] = articles[a]
          ELSE /\ articles' = articles
               /\ \/ pipeline'.pc = "failed"
                  \/ pipeline'.pc = "save" /\ pipeline'.tries = pipeline.tries + 1]_vars

\* save_articles has raised on a batch of two in the script: the execution
\* has failed and the table is empty
C26_Witness ==
    /\ pipeline.pc = "failed"
    /\ pipeline.runner = "script"
    /\ Len(pipeline.articles) = 2
    /\ articles = <<>>

\* C27: no step changes an embedding that is set; a step that sets an
\* embedding sets those of all articles that had none, and changes nothing
\* else (no event_id, no event); an embedding step that raises leaves the
\* articles as they were.
C27_EmbedOnce ==
    [][/\ \A a \in ArticleIds :
            articles[a].embedding_vector # NoVec =>
                articles'[a].embedding_vector = articles[a].embedding_vector
       /\ (\E a \in ArticleIds :
              articles'[a].embedding_vector # articles[a].embedding_vector) =>
              /\ DOMAIN articles' = ArticleIds
              /\ \A a \in ArticleIds :
                    /\ articles'[a].embedding_vector # NoVec
                    /\ articles'[a] =
                         [articles[a] EXCEPT
                            !.embedding_vector = articles'[a].embedding_vector]
              /\ UNCHANGED events
       /\ (pipeline.pc = "embed" /\ pipeline'.embed_failed) =>
              UNCHANGED articles]_vars

\* the embedding step has embedded one new article beside an article that
\* was embedded and clustered before
C27_Witness ==
    /\ pipeline.pc = "cluster"
    /\ pipeline.embeddings_count = 1
    /\ ~pipeline.embed_failed
    /\ \E a, b \in ArticleIds :
         /\ articles[a].event_id # None
         /\ articles[b].event_id = None
         /\ articles[b].embedding_vector # NoVec

\* the order of the steps of one execution
StepOrder ==
    { <<"scrape", "save">>, <<"save", "embed">>, <<"embed", "cluster">>,
      <<"cluster", "complete">> }

\* C28: the steps of an execution follow each other in the order scrape,
\* save, embed, cluster (or the execution fails), and the cluster step is
\* reached only when the embedding step did not fail.
C28_ClusterAfterEmbedSucceeds ==
    [][/\ (pipeline'.pc # pipeline.pc /\ pipeline'.pc \notin {"scrape", "failed"}) =>
            <<pipeline.pc, pipeline'.pc>> \in StepOrder
       /\ pipeline'.pc = "cluster" => ~pipeline'.embed_failed]_vars

====
